---- MODULE Spec2Model ----
(***************************************************************************)
(* A model of qupo_backend: the job dispatch of                            *)
(* models/optimization_backend/backend_runner.py (run_job, the Providers   *)
(* enumeration and the five adapters) and its caller                       *)
(* models/portfolio_model.py (calculate_model, get_model_calculations).    *)
(*                                                                         *)
(* Vendor SDKs are the environment: every SDK call an adapter makes can    *)
(* succeed or raise, which the record env decides.  Python exceptions are  *)
(* carried in the field exc of an outcome ("none" when the call returned). *)
(***************************************************************************)
EXTENDS Integers, Sequences, FiniteSets, TLC

(***************************************************************************)
(* Python values.  A value carries its type tag, so that None, a number    *)
(* and an array can be told apart.                                         *)
(***************************************************************************)
None == [t |-> "None"]
Unset == [t |-> "unset"]
Absent == [t |-> "absent"]
Num(n) == [t |-> "num", v |-> n]
Str(s) == [t |-> "str", v |-> s]
Arr(a) == [t |-> "ndarray", v |-> a]

(***************************************************************************)
(* Bounds and sample data.                                                 *)
(***************************************************************************)
NumAssets == 2
MaxModels == 2
MaxCalls == 2

Assets == 1..NumAssets

\* numpy: array * scalar, elementwise
ArrTimes(a, k) == [i \in DOMAIN a |-> a[i] * k]

\* numpy: np.dot of two vectors
RECURSIVE DotUpTo(_, _, _)
DotUpTo(a, b, n) == IF n = 0 THEN 0 ELSE DotUpTo(a, b, n - 1) + a[n] * b[n]
Dot(a, b) == DotUpTo(a, b, Len(a))

\* P.dot(x): matrix (a tuple of rows) times vector
MatVec(P, x) == [i \in DOMAIN P |-> Dot(P[i], x)]

\* 0.5 * np.dot(x, P.dot(x)) + np.dot(q, x); the sample P has even entries
QuadraticObjective(P, q, x) == (Dot(x, MatVec(P, x)) \div 2) + Dot(q, x)

\* the matrices of the sample quadratic program, one entry per asset
SampleP == [i \in Assets |-> [j \in Assets |-> IF i = j THEN 2 * i ELSE 0]]
SampleQ == [i \in Assets |-> 0 - i]

\* what a solver may hand back as its solution vector
RawSolutions == {[i \in Assets |-> 1], [i \in Assets |-> i - 1]}

(***************************************************************************)
(* The environment of one adapter run: the SDK call that fails (if any),   *)
(* the error it raises and the values the vendor's response carries.       *)
(***************************************************************************)
FailPoints == {"configure", "construct", "convert", "optimize", "interpret"}
ErrorKinds == {"TypeError", "RuntimeError", "IBMQAccountError"}
\* a failing call hands back no values
NoValues == [i \in Assets |-> 0]
Envs ==
    {[failAt |-> "none", err |-> "TypeError", x |-> x, obj_val |-> 0 - 3, run_time |-> 5] :
        x \in RawSolutions}
    \cup
    [failAt : FailPoints, err : ErrorKinds, x : {NoValues}, obj_val : {0}, run_time : {0}]

Fails(env, point) == env.failAt = point

(***************************************************************************)
(* Outcomes of a function call: the value returned or the exception        *)
(* raised, the warnings emitted and the SDK calls made on the way.         *)
(***************************************************************************)
Returned(ret, warns, sdk) == [exc |-> "none", ret |-> ret, warns |-> warns, sdk |-> sdk]
Raised(exc, warns, sdk) == [exc |-> exc, ret |-> None, warns |-> warns, sdk |-> sdk]
Triple(vv, ov, tts) ==
    [t |-> "tuple", variable_values |-> vv, objective_value |-> ov, time_to_solution |-> tts]

(***************************************************************************)
(* backend_runner.py: the adapters.  Each takes the job and the            *)
(* environment and yields an outcome.                                      *)
(***************************************************************************)

\* config[key] of a Solver's config mapping
HasKey(config, key) == config[key] # Absent

run_pypo_job(job, env) ==
    IF Fails(env, "construct")
    THEN Raised(env.err, <<>>, <<"EfficientFrontier">>)
    ELSE IF Fails(env, "optimize")
    THEN Raised(env.err, <<>>, <<"EfficientFrontier", "max_quadratic_utility">>)
    ELSE IF Fails(env, "interpret")
    THEN Raised(env.err, <<>>,
                <<"EfficientFrontier", "max_quadratic_utility", "calc_objective_value">>)
    ELSE Returned(Triple(Arr(env.x), Num(env.obj_val), None), <<>>,
                  <<"EfficientFrontier", "max_quadratic_utility", "calc_objective_value">>)

run_osqp_job(job, env) ==
    IF Fails(env, "construct")
    THEN Raised(env.err, <<>>, <<"setup">>)
    ELSE IF Fails(env, "optimize")
    THEN Raised(env.err, <<>>, <<"setup", "solve">>)
    ELSE Returned(Triple(Arr(env.x), Num(env.obj_val), Num(env.run_time)), <<>>,
                  <<"setup", "solve">>)

configure_azure_provider(quantum, env) ==
    LET sdk == IF quantum THEN <<"AzureQuantumProvider">> ELSE <<"Workspace">>
    IN  IF Fails(env, "configure")
        THEN Raised(env.err, <<>>, sdk)
        ELSE Returned(Str(sdk[1]), <<>>, sdk)

\* the constructor the if/elif chain of run_qio_job selects, "" when none
QioSolverClass(algorithm) ==
    CASE algorithm = "SA" -> "SimulatedAnnealing"
      [] algorithm = "PA" -> "PopulationAnnealing"
      [] algorithm = "PT" -> "ParallelTempering"
      [] algorithm = "Tabu" -> "Tabu"
      [] algorithm = "QMC" -> "QuantumMonteCarlo"
      [] algorithm = "SMC" -> "SubstochasticMonteCarlo"
      [] OTHER -> ""

\* the constructors whose arguments read job.solver.config['timeout']
QioReadsTimeout(algorithm) == algorithm \in {"SA", "PA", "PT", "Tabu", "SMC"}

QioNotImplemented == "QIO solver not implemented - choose from: SA, PA, PT, Tabu, QMC, SMC"
\* the text of the warning up to the config it ends with
QioJobFailed == "Qio job failed. Please check azure qio service health status and config"

\* lines 86-114: the body of the try block of run_qio_job
qio_try_body(job, env) ==
    LET alg == job.solver.algorithm
        cls == QioSolverClass(alg)
        known == cls # ""
        w == IF known THEN <<>> ELSE <<QioNotImplemented>>
        s1 == IF known /\ (~QioReadsTimeout(alg) \/ HasKey(job.solver.config, "timeout"))
              THEN <<cls>> ELSE <<>>
        s2 == s1 \o <<"convert_qubo_to_azureqio_model">>
        s3 == s2 \o <<"optimize">>
        s4 == s3 \o <<"interpret">>
    IN  IF known /\ QioReadsTimeout(alg) /\ ~HasKey(job.solver.config, "timeout")
        THEN Raised("KeyError", w, s1)
        ELSE IF known /\ Fails(env, "construct")
        THEN Raised(env.err, w, s1)
        ELSE IF Fails(env, "convert")
        THEN Raised(env.err, w, s2)
        ELSE IF ~known
        THEN Raised("UnboundLocalError", w, s2)
        ELSE IF Fails(env, "optimize")
        THEN Raised(env.err, w, s3)
        ELSE IF Fails(env, "interpret")
        THEN Raised(env.err, w, s4)
        ELSE IF job.problem.resolution = None
        THEN Raised("TypeError", w, s4)
        ELSE IF ~HasKey(job.solver.config, "timeout")
        THEN Raised("KeyError", w, s4)
        ELSE LET vv == ArrTimes(env.x, job.problem.resolution.v)
             IN  Returned(Triple(Arr(vv),
                                 Num(QuadraticObjective(job.problem.P, job.problem.q, vv)),
                                 job.solver.config["timeout"]),
                          w, s4)

\* a slip: no except clause, the TypeError leaves run_qio_job
qio_no_except(p, b) == [b EXCEPT !.sdk = p.sdk \o b.sdk]

\* lines 115-118: the except clause around the try block, and its way out
qio_except(p, b) ==
    IF b.exc = "TypeError"
    THEN Returned(Triple(None, None, None), b.warns \o <<QioJobFailed>>, p.sdk \o b.sdk)
    ELSE [b EXCEPT !.sdk = p.sdk \o b.sdk]

qio_after_provider(job, env, p) ==
    IF p.exc # "none" THEN p ELSE qio_except(p, qio_try_body(job, env))

run_qio_job(job, env) == qio_after_provider(job, env, configure_azure_provider(FALSE, env))

IbmAccountWarning == "IBM account not available. Please check ibmq health status and credentials"

configure_qiskit_provider(env) ==
    IF Fails(env, "configure") /\ env.err = "IBMQAccountError"
    THEN Returned(Str("provider"), <<IbmAccountWarning>>, <<"enable_account", "get_provider">>)
    ELSE IF Fails(env, "configure")
    THEN Raised(env.err, <<>>, <<"enable_account">>)
    ELSE Returned(Str("provider"), <<>>, <<"enable_account", "get_provider">>)

\* lines 145-163: run_qiskit_job once configure_qiskit_provider has ended as c
qiskit_after_provider(job, env, c) ==
    IF c.exc # "none"
    THEN c
    ELSE IF Fails(env, "construct")
    THEN Raised(env.err, c.warns, c.sdk \o <<"get_backend", "QAOA">>)
    ELSE IF Fails(env, "optimize")
    THEN Raised(env.err, c.warns, c.sdk \o <<"get_backend", "QAOA", "solve">>)
    ELSE Returned(Triple(Arr(env.x),
                         Num(QuadraticObjective(job.problem.P, job.problem.q, env.x)),
                         None),
                  c.warns, c.sdk \o <<"get_backend", "QAOA", "solve">>)

run_qiskit_job(job, env) == qiskit_after_provider(job, env, configure_qiskit_provider(env))

\* def run_qiskit_job(job): the number of parameters it declares
QiskitJobParams == 1
\* run_qiskit_job(job, simulator_backend): the number of arguments run_ionq_job passes
IonqPassesArgs == 2

\* line 126: the statement run_qiskit_job(job, simulator_backend); its value is dropped
ionq_call_qiskit(sdk, q) ==
    IF q.exc # "none"
    THEN [q EXCEPT !.sdk = sdk \o q.sdk]
    ELSE Returned(None, q.warns, sdk \o q.sdk)

ionq_after_provider(job, env, p) ==
    IF p.exc # "none"
    THEN p
    ELSE IF Fails(env, "construct")
    THEN Raised(env.err, <<>>, p.sdk \o <<"backends">>)
    ELSE IF IonqPassesArgs # QiskitJobParams
    THEN Raised("TypeError", <<>>, p.sdk \o <<"backends">>)
    ELSE ionq_call_qiskit(p.sdk \o <<"backends">>, run_qiskit_job(job, env))

run_ionq_job(job, env) == ionq_after_provider(job, env, configure_azure_provider(TRUE, env))

(***************************************************************************)
(* backend_runner.py: the Providers enumeration and run_job.               *)
(***************************************************************************)

\* class Providers(Enum): member name -> value
ProviderMembers ==
    [pypo |-> "pypfopt", osqp |-> "osqp", qio |-> "azure_quantum_qio",
     qiskit |-> "qiskit_ibm", ionq |-> "azure_ionq"]

\* Providers(value): the member with that value, ValueError when there is none
Providers(value) ==
    IF \E n \in DOMAIN ProviderMembers : ProviderMembers[n] = value
    THEN [exc |-> "none", name |-> CHOOSE n \in DOMAIN ProviderMembers : ProviderMembers[n] = value]
    ELSE [exc |-> "ValueError", name |-> ""]

\* Providers[name]: the member with that name, KeyError when there is none
ProvidersByName(name) ==
    IF name \in DOMAIN ProviderMembers
    THEN [exc |-> "none", name |-> name, value |-> ProviderMembers[name]]
    ELSE [exc |-> "KeyError", name |-> "", value |-> ""]

\* the functions the module defines that eval can resolve by name
AdapterFunctions ==
    {"run_pypo_job", "run_osqp_job", "run_qio_job", "run_ionq_job", "run_qiskit_job"}

\* a slip: the function name built from the member's value
AdapterNameByValue(name) == "run_" \o ProviderMembers[name] \o "_job"

\* 'run_' + self.name + '_job'
AdapterName(name) == "run_" \o name \o "_job"

\* the call of the function named fn with the single argument job
CallAdapter(fn, job, env) ==
    CASE fn = "run_pypo_job" -> run_pypo_job(job, env)
      [] fn = "run_osqp_job" -> run_osqp_job(job, env)
      [] fn = "run_qio_job" -> run_qio_job(job, env)
      [] fn = "run_qiskit_job" -> run_qiskit_job(job, env)
      [] fn = "run_ionq_job" -> run_ionq_job(job, env)
      [] OTHER -> Raised("NameError", <<>>, <<>>)

\* the outcome of the adapter call, with the adapter calls evaluated
Evaluated(fn, o) ==
    [exc |-> o.exc, ret |-> o.ret, warns |-> o.warns, sdk |-> o.sdk,
     adapters |-> IF fn \in AdapterFunctions THEN <<fn>> ELSE <<>>]

\* Providers.run_job: eval('run_' + self.name + '_job(job)')
Providers_run_job(name, job, env) ==
    Evaluated(AdapterName(name), CallAdapter(AdapterName(name), job, env))

\* optimization_classes.Result(variable_values, objective_value, time_to_solution)
Result(vv, ov, tts) ==
    [t |-> "Result", variable_values |-> vv, objective_value |-> ov,
     time_to_solution |-> tts, esg_value |-> None]

ProviderNotAvailable(name) == "Provider " \o name \o " not available"
NoVariableValues == "Solver did not return variable values"

\* lines 31-33: the unpacking of what the adapter call gave, and the except
\* clause; bound is whether the three locals got assigned, ret what the
\* adapter returned and aexc what it raised
run_job_unpack(job, o) ==
    IF o.exc = "TypeError" \/ (o.exc = "none" /\ o.ret.t # "tuple")
    THEN [exc |-> "none", bound |-> FALSE, ret |-> o.ret,
          warns |-> o.warns \o <<ProviderNotAvailable(job.solver.provider_name)>>,
          sdk |-> o.sdk, adapters |-> o.adapters, aexc |-> o.exc]
    ELSE [exc |-> o.exc, bound |-> o.exc = "none", ret |-> o.ret, warns |-> o.warns,
          sdk |-> o.sdk, adapters |-> o.adapters, aexc |-> o.exc]

\* line 31: Providers(job.solver.provider_name) gave m
run_job_member(job, env, m) ==
    IF m.exc # "none"
    THEN [exc |-> m.exc, bound |-> FALSE, ret |-> None, warns |-> <<>>,
          sdk |-> <<>>, adapters |-> <<>>, aexc |-> ""]
    ELSE run_job_unpack(job, Providers_run_job(m.name, job, env))

\* lines 30-33: the first try block
run_job_dispatch(job, env) == run_job_member(job, env, Providers(job.solver.provider_name))

\* variable_values * 100
Times100(vv) ==
    CASE vv.t = "ndarray" -> [exc |-> "none", val |-> Arr(ArrTimes(vv.v, 100))]
      [] vv.t = "num" -> [exc |-> "none", val |-> Num(vv.v * 100)]
      [] OTHER -> [exc |-> "TypeError", val |-> None]

\* the outcome of run_job: the exception that escapes ("none" when run_job
\* returns), the job's result afterwards, the warnings, and of the dispatch d
\* the adapters and SDK calls
RunJobOutcome(d, exc, result, warns) ==
    [exc |-> exc, result |-> result, warns |-> warns, sdk |-> d.sdk,
     adapters |-> d.adapters, ret |-> d.ret, aexc |-> d.aexc]

\* line 35: job.result = Result(variable_values * 100, ...), scaled being the product
run_job_assign(job, d, scaled) ==
    IF scaled.exc = "TypeError"
    THEN RunJobOutcome(d, "none", job.result, d.warns \o <<NoVariableValues>>)
    ELSE RunJobOutcome(d, "none",
                       Result(scaled.val, d.ret.objective_value, d.ret.time_to_solution),
                       d.warns)

\* lines 34-37: the second try block, after the first ended as d
run_job_result(job, d) ==
    IF d.exc # "none"
    THEN RunJobOutcome(d, d.exc, job.result, d.warns)
    ELSE IF ~d.bound
    THEN RunJobOutcome(d, "UnboundLocalError", job.result, d.warns)
    ELSE run_job_assign(job, d, Times100(d.ret.variable_values))

run_job(job, env) == run_job_result(job, run_job_dispatch(job, env))

(***************************************************************************)
(* optimization_classes and the jobs calculate_model builds.               *)
(***************************************************************************)

\* optimization_classes: Problem(P, q, A, l, u, dataframe, risk_weight, esg_weight, resolution)
Problem(P, q, resolution) == [P |-> P, q |-> q, resolution |-> resolution]
\* optimization_classes: Solver(provider_name, algorithm, config)
Solver(provider_name, algorithm, config) ==
    [provider_name |-> provider_name, algorithm |-> algorithm, config |-> config]
\* optimization_classes: Job(problem, solver); the result comes later
Job(problem, solver) == [problem |-> problem, solver |-> solver, result |-> Unset]

EmptyConfig == [timeout |-> Absent, hardware |-> Absent]
QioConfig == [timeout |-> Num(1), hardware |-> Str("FPGA")]

NoJob == Job(Problem(SampleP, SampleQ, None), Solver("", "", EmptyConfig))

\* calculate_model, lines 38-48: algorithm, config and resolution for a model
ModelAlgorithm(model) ==
    IF model = "qio" THEN "PA"
    ELSE IF model = "qiskit" \/ model = "ionq" THEN "QAOA"
    ELSE model

ModelConfig(model) == IF model = "qio" THEN QioConfig ELSE EmptyConfig

ModelResolution(model) ==
    IF model = "qio" \/ model = "qiskit" \/ model = "ionq" THEN Num(1) ELSE None

\* calculate_model, line 51: the solver of a model that is a member name
ModelSolver(model) ==
    Solver(ProvidersByName(model).value, ModelAlgorithm(model), ModelConfig(model))

\* calculate_model, lines 50-52: the job
ModelJob(model) ==
    Job(Problem(SampleP, SampleQ, ModelResolution(model)), ModelSolver(model))

(***************************************************************************)
(* The state.                                                              *)
(***************************************************************************)
VARIABLES
    pc,              \* where the single thread of control is
    job,             \* the Job object last built: problem, solver, result
    prior,           \* job.result as it was when run_job was last entered
    env,             \* the environment the last run_job ran in
    out,             \* the outcome of the last run_job
    models,          \* get_model_calculations: the argument models
    metadata,        \* get_model_calculations: the argument metadata
    i,               \* get_model_calculations: position of the loop in models
    results,         \* get_model_calculations: the local list results
    result,          \* get_model_calculations: what calculate_model returned
    error,           \* the exception that ended the last call, "none" if it returned
    inflight,        \* positions in models whose job is dispatched and not finished
    dispatched,      \* positions in models a job was dispatched for, in this call
    created,         \* keys of the calculation records this call created
    db_at_call,      \* the store as it was when the call was made
    completed,       \* keys of the calculations whose job run_job completed
    db_calculations, \* the store: calculation records
    db_results,      \* the store: result records
    calls            \* number of calls of get_model_calculations so far

vars == <<pc, job, prior, env, out, models, metadata, i, results, result, error,
          inflight, dispatched, created, db_at_call, completed, db_calculations,
          db_results, calls>>

runner_vars == <<job, prior, env, out>>
frame_vars == <<models, metadata, i, results, result, inflight, dispatched, created,
                db_at_call>>
db_vars == <<db_calculations, db_results, completed>>

NoEnv == [failAt |-> "none", err |-> "TypeError", x |-> <<>>, obj_val |-> 0, run_time |-> 0]
NoOutcome ==
    [exc |-> "", result |-> Unset, warns |-> <<>>, sdk |-> <<>>, adapters |-> <<>>,
     ret |-> None, aexc |-> ""]
NoMetadata == [symbols |-> <<>>, risk_weight |-> 0, esg_weight |-> 0]
EmptyStore == [calculations |-> {}, results |-> {}]

Init ==
    /\ pc = "idle"
    /\ job = NoJob
    /\ prior = Unset
    /\ env = NoEnv
    /\ out = NoOutcome
    /\ models = <<>>
    /\ metadata = NoMetadata
    /\ i = 0
    /\ results = <<>>
    /\ result = None
    /\ error = "none"
    /\ inflight = {}
    /\ dispatched = <<>>
    /\ created = {}
    /\ db_at_call = EmptyStore
    /\ completed = {}
    /\ db_calculations = {}
    /\ db_results = {}
    /\ calls = 0

(***************************************************************************)
(* Direct use of backend_runner: a client builds a Job, or gives the Job   *)
(* it holds another solver, and calls run_job on it.                       *)
(***************************************************************************)
Algorithms == {"SA", "PA", "PT", "Tabu", "QMC", "SMC", "XX"}
Configs == {EmptyConfig, QioConfig}
Resolutions == {None, Num(1)}

\* the solvers a client submits: the one calculate_model builds for each
\* member of Providers, every algorithm for the qio provider, and a
\* provider name that is no value of Providers
Solvers ==
    {ModelSolver(m) : m \in DOMAIN ProviderMembers}
    \cup {Solver("azure_quantum_qio", a, c) : a \in Algorithms, c \in Configs}
    \cup {Solver("dwave", "QAOA", EmptyConfig)}

NewJob(solver, resolution) ==
    /\ pc = "idle"
    /\ job' = Job(Problem(SampleP, SampleQ, resolution), solver)
    /\ pc' = "submitted"
    /\ UNCHANGED <<prior, env, out, error, calls>>
    /\ UNCHANGED frame_vars
    /\ UNCHANGED db_vars

Resubmit(solver) ==
    /\ pc = "idle"
    /\ job # NoJob
    /\ job' = [job EXCEPT !.solver = solver]
    /\ pc' = "submitted"
    /\ UNCHANGED <<prior, env, out, error, calls>>
    /\ UNCHANGED frame_vars
    /\ UNCHANGED db_vars

\* what run_job does to the job and what the caller sees of it
RunJobEffect(o) ==
    /\ out' = o
    /\ job' = [job EXCEPT !.result = o.result]
    /\ prior' = job.result

\* run_job(job) called by the client
RunJob(e) ==
    /\ pc = "submitted"
    /\ RunJobEffect(run_job(job, e))
    /\ error' = run_job(job, e).exc
    /\ env' = e
    /\ pc' = "idle"
    /\ UNCHANGED frame_vars
    /\ UNCHANGED db_vars
    /\ UNCHANGED calls

NextRunner ==
    \/ \E s \in Solvers, r \in Resolutions : NewJob(s, r)
    \/ \E s \in Solvers : Resubmit(s)
    \/ \E e \in Envs : RunJob(e)

SpecRunner == Init /\ [][NextRunner]_vars

(***************************************************************************)
(* The store behind qupo_backend.db.calculations.crud: one calculation     *)
(* record per (model, metadata), and the result records that belong to     *)
(* them.                                                                   *)
(***************************************************************************)

\* calc_schemas.CalculationBase(model=model, **metadata)
CalculationBase(model, md) ==
    [model |-> model, symbols |-> md.symbols, risk_weight |-> md.risk_weight,
     esg_weight |-> md.esg_weight]

KeyOf(rec) == CalculationBase(rec.model, rec)

StoredKeys(dbc) == {KeyOf(c) : c \in dbc}

\* crud.get_calculation(db, calculation): the stored calculation with its
\* result records, None when there is none
get_calculation(dbc, dbr, calculation) ==
    IF calculation \in StoredKeys(dbc)
    THEN [t |-> "Calculation",
          id |-> (CHOOSE c \in dbc : KeyOf(c) = calculation).id,
          key |-> calculation,
          results |-> {r \in dbr :
                         r.calculation_id = (CHOOSE c \in dbc : KeyOf(c) = calculation).id}]
    ELSE None

\* crud.create_calculation(db, calculation): the record created, with a fresh id
create_calculation(dbc, calculation) ==
    [id |-> Cardinality(dbc) + 1, model |-> calculation.model,
     symbols |-> calculation.symbols, risk_weight |-> calculation.risk_weight,
     esg_weight |-> calculation.esg_weight]

\* calc_schemas.ResultCreate(...) and crud.create_result(db, result_to_save,
\* calculation_id): the record created
create_result(result_to_save, calculation_id) ==
    [calculation_id |-> calculation_id, rate_of_return |-> result_to_save.RateOfReturn,
     objective_value |-> result_to_save.objective_value,
     esg_value |-> result_to_save.esg_value]

(***************************************************************************)
(* portfolio_model.py: calculate_model after run_job.                      *)
(***************************************************************************)

\* numpy: round(2); the arrays of the model hold whole numbers, which
\* rounding to two decimals leaves as they are
Round2(a) == [k \in DOMAIN a |-> a[k]]

\* a slip: a job without result is reported as a calculation without values
calculate_model_lenient(o) ==
    IF o.exc # "none"
    THEN [exc |-> o.exc, value |-> None]
    ELSE [exc |-> "none",
          value |-> [t |-> "dict",
                     RateOfReturn |-> IF o.result.t = "Result"
                                      THEN Round2(o.result.variable_values.v) ELSE <<>>,
                     objective_value |-> IF o.result.t = "Result"
                                         THEN o.result.objective_value ELSE None,
                     esg_value |-> None]]

\* lines 55-67: what calculate_model does once run_job has ended as o:
\* the exception that escapes it, or the mapping it returns.  Of the
\* mapping, the entries that come from the job are kept; the others are
\* columns of the dataframe and values of PortfolioModel.
calculate_model_return(o) ==
    IF o.exc # "none"
    THEN [exc |-> o.exc, value |-> None]
    ELSE IF o.result.t # "Result"
    THEN [exc |-> "AttributeError", value |-> None]
    ELSE [exc |-> "none",
          value |-> [t |-> "dict",
                     RateOfReturn |-> Round2(o.result.variable_values.v),
                     objective_value |-> o.result.objective_value,
                     esg_value |-> o.result.esg_value]]

(***************************************************************************)
(* portfolio_model.py: get_model_calculations, one action per step of its  *)
(* loop.                                                                   *)
(***************************************************************************)

\* the model codes requested: one whose solver only returns values or
\* raises, one that can return without values, one that always raises and
\* one that is no member of Providers
ModelCodes == {"osqp", "qio", "ionq", "dwave"}

RECURSIVE SeqsUpTo(_, _)
SeqsUpTo(S, n) ==
    IF n = 0 THEN {<<>>}
    ELSE SeqsUpTo(S, n - 1) \cup {Append(q, x) : q \in SeqsUpTo(S, n - 1), x \in S}

ModelLists == SeqsUpTo(ModelCodes, MaxModels) \ {<<>>}

Metadatas ==
    {[symbols |-> [k \in Assets |-> k], risk_weight |-> w, esg_weight |-> 1] : w \in {1, 2}}

\* the environments a job of calculate_model runs in: every SDK call
\* succeeds, or the solve fails
ServiceEnvs == {e \in Envs : e.failAt \in {"none", "optimize"}}

\* the job is a local of calculate_model: once calculate_model has returned
\* and its value is used, nothing refers to the job or to what run_job did
ForgetJob ==
    /\ job' = NoJob
    /\ prior' = Unset
    /\ env' = NoEnv
    /\ out' = NoOutcome

\* get_model_calculations(db, models, metadata) is called
Call(ms, md) ==
    /\ pc = "idle"
    /\ calls < MaxCalls
    /\ calls' = calls + 1
    /\ models' = ms
    /\ metadata' = md
    /\ i' = 1
    /\ results' = <<>>
    /\ result' = None
    /\ error' = "none"
    /\ inflight' = {}
    /\ dispatched' = <<>>
    /\ created' = {}
    /\ db_at_call' = [calculations |-> db_calculations, results |-> db_results]
    /\ pc' = "loop"
    /\ ForgetJob
    /\ UNCHANGED db_vars

\* line 72: for model in models
AtModel == pc = "loop" /\ i <= Len(models)

\* line 73
Calculation == CalculationBase(models[i], metadata)

\* a slip: the stored calculation is not looked at
NeverStored == TRUE

\* lines 74, 76: db_calculation is None
NotStored == get_calculation(db_calculations, db_results, Calculation) = None

\* lines 73-74, 86-87: the calculation is stored
LoopStored ==
    /\ AtModel
    /\ ~NotStored
    /\ results' = Append(results, get_calculation(db_calculations, db_results, Calculation))
    /\ i' = i + 1
    /\ UNCHANGED <<pc, error, calls, models, metadata, result, inflight, dispatched,
                   created, db_at_call>>
    /\ UNCHANGED runner_vars
    /\ UNCHANGED db_vars

\* a slip: the job is started and the loop goes on without waiting for it
LoopDispatchAsync ==
    /\ AtModel
    /\ get_calculation(db_calculations, db_results, Calculation) = None
    /\ ProvidersByName(models[i]).exc = "none"
    /\ job' = ModelJob(models[i])
    /\ inflight' = inflight \cup {i}
    /\ dispatched' = Append(dispatched, i)
    /\ i' = i + 1
    /\ UNCHANGED <<pc, prior, env, out, error, calls, models, metadata, results, result,
                   created, db_at_call>>
    /\ UNCHANGED db_vars

\* lines 73-77 and 33-53: no calculation is stored, calculate_model builds
\* the job and calls run_job (lines 34-36, which fetch the stock data and
\* build the quadratic program, return)
LoopDispatch ==
    /\ AtModel
    /\ NotStored
    /\ ProvidersByName(models[i]).exc = "none"
    /\ job' = ModelJob(models[i])
    /\ inflight' = inflight \cup {i}
    /\ dispatched' = Append(dispatched, i)
    /\ pc' = "job"
    /\ UNCHANGED <<prior, env, out, error, calls, models, metadata, i, results, result,
                   created, db_at_call>>
    /\ UNCHANGED db_vars

\* lines 73-77 and 33-51: no calculation is stored and Providers[model] raises
LoopNoProvider ==
    /\ AtModel
    /\ NotStored
    /\ ProvidersByName(models[i]).exc # "none"
    /\ error' = ProvidersByName(models[i]).exc
    /\ pc' = "raised"
    /\ UNCHANGED calls
    /\ UNCHANGED runner_vars
    /\ UNCHANGED frame_vars
    /\ UNCHANGED db_vars

\* calculate_model ended as r, and with it line 77
JobEnded(r) ==
    /\ result' = r.value
    /\ error' = r.exc
    /\ pc' = IF r.exc = "none" THEN "store" ELSE "raised"

\* lines 53-67 and 77: run_job runs the job; calculate_model returns or raises
JobDone(e) ==
    /\ pc = "job"
    /\ RunJobEffect(run_job(job, e))
    /\ env' = e
    /\ JobEnded(calculate_model_return(run_job(job, e)))
    /\ inflight' = inflight \ {i}
    /\ completed' = IF run_job(job, e).exc = "none" /\ run_job(job, e).result.t = "Result"
                    THEN completed \cup {Calculation}
                    ELSE completed
    /\ UNCHANGED <<calls, models, metadata, i, results, dispatched, created, db_at_call,
                   db_calculations, db_results>>

\* lines 78-85: the calculation and its result are stored and fetched
Store ==
    /\ pc = "store"
    /\ db_calculations' =
           db_calculations \cup {create_calculation(db_calculations, Calculation)}
    /\ db_results' =
           db_results \cup
               {create_result(result, create_calculation(db_calculations, Calculation).id)}
    /\ results' = Append(results, get_calculation(db_calculations', db_results', Calculation))
    /\ created' = created \cup {Calculation}
    /\ i' = i + 1
    /\ pc' = "loop"
    /\ ForgetJob
    /\ UNCHANGED <<error, calls, models, metadata, result, inflight, dispatched,
                   db_at_call, completed>>

\* line 88: return results
Return ==
    /\ pc = "loop"
    /\ i > Len(models)
    /\ pc' = "returned"
    /\ UNCHANGED <<error, calls>>
    /\ UNCHANGED runner_vars
    /\ UNCHANGED frame_vars
    /\ UNCHANGED db_vars

\* the caller has the list returned, or the exception raised; the frame of
\* get_model_calculations is gone and the store stays
Leave ==
    /\ pc \in {"returned", "raised"}
    /\ pc' = "idle"
    /\ models' = <<>>
    /\ metadata' = NoMetadata
    /\ i' = 0
    /\ results' = <<>>
    /\ result' = None
    /\ error' = "none"
    /\ inflight' = {}
    /\ dispatched' = <<>>
    /\ created' = {}
    /\ db_at_call' = EmptyStore
    /\ ForgetJob
    /\ UNCHANGED calls
    /\ UNCHANGED db_vars

Next ==
    \/ \E ms \in ModelLists, md \in Metadatas : Call(ms, md)
    \/ LoopStored
    \/ LoopDispatch
    \/ LoopNoProvider
    \/ \E e \in ServiceEnvs : JobDone(e)
    \/ Store
    \/ Return
    \/ Leave

Spec == Init /\ [][Next]_vars

(***************************************************************************)
(* The properties.                                                         *)
(***************************************************************************)
Has(seq, x) == \E k \in DOMAIN seq : seq[k] = x
Last(seq) == seq[Len(seq)]

ProviderValues == {"pypfopt", "osqp", "azure_quantum_qio", "qiskit_ibm", "azure_ionq"}
QioAlgorithms == {"SA", "PA", "PT", "Tabu", "QMC", "SMC"}
QioClasses ==
    {"SimulatedAnnealing", "PopulationAnnealing", "ParallelTempering", "Tabu",
     "QuantumMonteCarlo", "SubstochasticMonteCarlo"}
NoneTriple ==
    [t |-> "tuple", variable_values |-> None, objective_value |-> None,
     time_to_solution |-> None]

\* a client's run_job call has ended
RunJobEnded == pc = "idle" /\ out.exc # ""

\* C1: whenever the adapter run_job invoked raised an error, run_job caught
\* it, warned and returned normally, and set no Result on the job.
C1_AdapterErrorCaught ==
    (RunJobEnded /\ out.aexc \notin {"", "none"})
        => (out.exc = "none" /\ Len(out.warns) > 0 /\ job.result = prior)

\* C2: for the job calculate_model builds for each member of Providers, when
\* every SDK call succeeds, run_job ends with job.result a Result holding the
\* adapter's variable values times 100 and the adapter's objective value and
\* time to solution.
C2_EveryProviderSucceeds ==
    \A m \in {"pypo", "osqp", "qio", "qiskit", "ionq"} :
        (RunJobEnded /\ job.solver = ModelSolver(m)
            /\ job.problem.resolution = ModelResolution(m) /\ env.failAt = "none")
        => /\ out.exc = "none"
           /\ out.ret.t = "tuple"
           /\ out.ret.variable_values.t = "ndarray"
           /\ job.result =
                [t |-> "Result",
                 variable_values |->
                     Arr([k \in DOMAIN out.ret.variable_values.v |->
                             100 * out.ret.variable_values.v[k]]),
                 objective_value |-> out.ret.objective_value,
                 time_to_solution |-> out.ret.time_to_solution,
                 esg_value |-> None]

\* the adapter each provider name stands for, and the first SDK call it makes
C3Adapter ==
    [pypfopt |-> "run_pypo_job", osqp |-> "run_osqp_job",
     azure_quantum_qio |-> "run_qio_job", qiskit_ibm |-> "run_qiskit_job",
     azure_ionq |-> "run_ionq_job"]
C3FirstCall ==
    [run_pypo_job |-> "EfficientFrontier", run_osqp_job |-> "setup",
     run_qio_job |-> "Workspace", run_qiskit_job |-> "enable_account",
     run_ionq_job |-> "AzureQuantumProvider"]
C3Code ==
    [pypo |-> "run_pypo_job", osqp |-> "run_osqp_job", qio |-> "run_qio_job",
     qiskit |-> "run_qiskit_job", ionq |-> "run_ionq_job"]

\* C3: for any provider name, run_job either reaches no adapter (the name is
\* no value of Providers) or evaluates exactly the one adapter call of the
\* member with that value; the job calculate_model builds for the code m is
\* dispatched to run_<m>_job once and to no other adapter.
C3_OneFixedAdapter ==
    RunJobEnded =>
        /\ job.solver.provider_name \notin ProviderValues
               => (out.adapters = <<>> /\ out.sdk = <<>>)
        /\ job.solver.provider_name \in ProviderValues
               => /\ out.adapters = <<C3Adapter[job.solver.provider_name]>>
                  /\ out.sdk # <<>>
                  /\ out.sdk[1] = C3FirstCall[C3Adapter[job.solver.provider_name]]
        /\ \A m \in DOMAIN C3Code :
               job.solver = ModelSolver(m) => out.adapters = <<C3Code[m]>>

C3_Witness ==
    /\ RunJobEnded
    /\ job.solver = ModelSolver("ionq")
    /\ out.adapters = <<"run_ionq_job">>
    /\ out.sdk = <<"AzureQuantumProvider", "backends">>

InCall == pc \in {"loop", "job", "store", "returned", "raised"}
KeyAt(k) == CalculationBase(models[k], metadata)
RequestedKeys == {KeyAt(k) : k \in DOMAIN models}
KeysAtCall == StoredKeys(db_at_call.calculations)

\* C4: get_model_calculations handles the models one at a time in list
\* order: a job is dispatched only when every earlier model is handled (its
\* record with a result is in results), at most one job is in flight, and
\* the loop never goes on while a job is in flight.
C4_OneJobAtATime ==
    /\ Cardinality(inflight) <= 1
    /\ pc = "job" => inflight = {i}
    /\ pc \in {"idle", "loop", "store", "returned", "raised"} => inflight = {}
    /\ pc \in {"loop", "job", "store", "raised"} => Len(results) = i - 1
    /\ \A k \in DOMAIN results :
           /\ results[k].t = "Calculation"
           /\ results[k].key = KeyAt(k)
           /\ results[k].results # {}
    /\ \A a, b \in DOMAIN dispatched : a < b => dispatched[a] < dispatched[b]

C4_Witness ==
    /\ pc = "job"
    /\ i = 2
    /\ dispatched = <<1, 2>>
    /\ Len(results) = 1

\* C5: calculate_model reads the fields of job.result only when run_job has
\* set a Result: when run_job returns with the job lacking a result,
\* calculate_model does not dereference it.
C5_MissingResultDetected ==
    (pc = "raised" /\ out.exc = "none" /\ job.result.t # "Result")
        => error # "AttributeError"

\* C6: given a provider name that is no value of Providers, run_job invokes
\* no adapter, warns 'Provider <name> not available', leaves job.result as
\* it was and returns without raising.
C6_UnknownProviderWarns ==
    (RunJobEnded /\ job.solver.provider_name \notin ProviderValues)
        => /\ out.adapters = <<>>
           /\ Has(out.warns, "Provider " \o job.solver.provider_name \o " not available")
           /\ job.result = prior
           /\ out.exc = "none"

\* C7: given an algorithm outside SA, PA, PT, Tabu, QMC, SMC (and SDK calls
\* that all succeed), run_qio_job warns 'QIO solver not implemented', calls
\* optimize on no solver and returns (None, None, None) instead of raising.
C7_UnknownAlgorithmReturnsNones ==
    (RunJobEnded /\ job.solver.provider_name = "azure_quantum_qio"
        /\ job.solver.algorithm \notin QioAlgorithms /\ env.failAt = "none")
        => /\ Has(out.warns, QioNotImplemented)
           /\ ~Has(out.sdk, "optimize")
           /\ out.aexc = "none"
           /\ out.ret = NoneTriple

\* the solver construction, the optimize call or the interpretation of the
\* result was reached in run_qio_job and raised TypeError
QioRaisedTypeError ==
    /\ RunJobEnded
    /\ job.solver.provider_name = "azure_quantum_qio"
    /\ env.err = "TypeError"
    /\ out.sdk # <<>>
    /\ \/ env.failAt = "construct" /\ Last(out.sdk) \in QioClasses
       \/ env.failAt = "optimize" /\ Last(out.sdk) = "optimize"
       \/ env.failAt = "interpret" /\ Last(out.sdk) = "interpret"

\* C8: if the solver construction, the optimize call or the interpretation
\* of the result raises TypeError in run_qio_job, run_qio_job returns
\* (None, None, None); run_job warns 'Solver did not return variable
\* values', leaves job.result exactly as it was and returns without raising.
C8_QioTypeErrorLeavesResult ==
    QioRaisedTypeError
        => /\ out.aexc = "none"
           /\ out.ret = NoneTriple
           /\ Has(out.warns, "Solver did not return variable values")
           /\ job.result = prior
           /\ out.exc = "none"
           /\ error = "none"

C8_Witness ==
    /\ QioRaisedTypeError
    /\ env.failAt = "optimize"
    /\ prior.t = "Result"
    /\ job.result = prior

\* C9: for a model whose calculation was stored when the call was made no
\* job is dispatched and no record is created, and the stored record is
\* what the call returns for it; a call that returns leaves every requested
\* calculation stored, and a call that finds them all stored dispatches no
\* job, leaves the store as it was and returns one record per requested
\* model, in the order requested.
C9_Idempotent ==
    InCall =>
        /\ \A k \in DOMAIN dispatched : KeyAt(dispatched[k]) \notin KeysAtCall
        /\ created \cap KeysAtCall = {}
        /\ \A k \in DOMAIN results :
               KeyAt(k) \in KeysAtCall
                   => results[k] = get_calculation(db_at_call.calculations,
                                                   db_at_call.results, KeyAt(k))
        /\ RequestedKeys \subseteq KeysAtCall
               => /\ dispatched = <<>>
                  /\ created = {}
                  /\ db_calculations = db_at_call.calculations
                  /\ db_results = db_at_call.results
                  /\ pc # "raised"
        /\ pc = "returned"
               => /\ Len(results) = Len(models)
                  /\ \A k \in DOMAIN results : results[k].key = KeyAt(k)
                  /\ RequestedKeys \subseteq StoredKeys(db_calculations)

C9_Witness ==
    /\ pc = "returned"
    /\ calls = 2
    /\ Len(models) = 2
    /\ models[1] # models[2]
    /\ RequestedKeys \subseteq KeysAtCall
    /\ dispatched = <<>>

\* C10: a calculation record is stored only after calculate_model returned
\* a result for its model: when the job of a model fails no calculation and
\* no result record is created for it and the records of the earlier models
\* are kept, and every calculation record stored was preceded by a job that
\* run_job completed.
C10_RecordsOnlyAfterCompletedJob ==
    /\ StoredKeys(db_calculations) \subseteq completed
    /\ \A r \in db_results : \E c \in db_calculations : c.id = r.calculation_id
    /\ pc = "store" => (out.exc = "none" /\ out.result.t = "Result")
    /\ InCall =>
           /\ db_at_call.calculations \subseteq db_calculations
           /\ db_at_call.results \subseteq db_results
           /\ created \subseteq StoredKeys(db_calculations)
    /\ pc = "raised" =>
           /\ KeyAt(i) \notin StoredKeys(db_calculations)
           /\ KeyAt(i) \notin created
           /\ \A k \in 1..(i - 1) : KeyAt(k) \in StoredKeys(db_calculations)

C10_Witness ==
    /\ pc = "raised"
    /\ i = 2
    /\ out.exc # ""
    /\ created = {KeyAt(1)}
    /\ KeyAt(2) \notin StoredKeys(db_calculations)

====
